---- MODULE Spec2Model ----
(***************************************************************************)
(* RPC endpoint tester (src/script.ts): main(), RPCTester.runAllTests and  *)
(* the five probes, against a JSON-RPC endpoint that may answer each       *)
(* request with any reply of its behaviour set.                            *)
(*                                                                         *)
(* JavaScript values are tagged records: [str |-> s], [num |-> n],         *)
(* [arr |-> <<...>>], [nan |-> TRUE], [undefined |-> TRUE].  TLC treats a  *)
(* string as a sequence of characters, so String.includes, parseInt and    *)
(* BigInt are computed on the text itself.                                 *)
(*                                                                         *)
(* One action is one turn of the event loop: the continuation that runs    *)
(* when the awaited promise settles, up to the next await.  TimingSpec     *)
(* follows one call of makeRequest listener by listener, with the clock.   *)
(***************************************************************************)
EXTENDS Integers, Sequences, FiniteSets, TLC

VARIABLES
    argv,             \* process.argv.slice(2)
    TEST_ADDRESS,     \* process.env.FORDEFI_EVM_VAULT_ADDRESS || ""
    endpoint,         \* which behaviour the endpoint at rpcUrl has
    pc,               \* main(): "main", "runAllTests", "exit"
    exitCode,         \* exit status of the process, -1 while running
    expectedChainId,  \* RPCTester.expectedChainId
    requestId,        \* RPCTester.requestId
    results,          \* RPCTester.results: chainId, blockNumber, eip1559
    testResult,       \* runAllTests' results: passed, failed, tests
    idx,              \* runAllTests' position in the tests array
    tpc,              \* the running probe: "idle", "await", "await number format", "returned"
    ret,              \* how the probe's promise settled: "true", "false", "throw"
    response,         \* the probe's local `response`
    samples,          \* testBlockNumber's local results (block numbers)
    addrIdx,          \* testGetBalance's position in testAddresses
    parameterFormat,  \* testFeeHistory's local parameterFormat
    console,          \* what the running probe, then the summary, printed
    wire,             \* every request written to the socket, in order
    inflight,         \* ids of the requests whose promise has not settled
    received,         \* what makeRequest's promises of the running probe settled with
    invoked,          \* the probes runAllTests has called, in order
    outcomes,         \* how each called probe ended, in order
    now,              \* Date.now()
    mpc,              \* makeRequest event by event: "idle", "sent", "response", "settled"
    startTime,        \* makeRequest's const startTime
    responseTime,     \* the response callback's const responseTime, -1 before it
    responseData,     \* the chunks the 'data' listener has added to responseData
    endTime           \* Date.now() when 'end' was emitted, -1 before it (history)

vars == <<argv, TEST_ADDRESS, endpoint, pc, exitCode, expectedChainId, requestId,
          results, testResult, idx, tpc, ret, response, samples, addrIdx,
          parameterFormat, console, wire, inflight, received, invoked, outcomes,
          now, mpc, startTime, responseTime, responseData, endTime>>

----------------------------------------------------------------------------
(* JavaScript values *)

Undefined == [undefined |-> TRUE]

NaN == [nan |-> TRUE]

Str(s) == [str |-> s]

Num(n) == [num |-> n]

Arr(a) == [arr |-> a]

IsStr(v) == "str" \in DOMAIN v

IsNum(v) == "num" \in DOMAIN v

\* Falsy that takes the empty string for a value
FalsyExceptEmptyString(v) == v = Undefined \/ v = NaN \/ v = Num(0)

\* !v
Falsy(v) == v = Undefined \/ v = NaN \/ v = Str("") \/ v = Num(0)

\* a > b on numbers: false when either is NaN
JsGreater(a, b) == IsNum(a) /\ IsNum(b) /\ a.num > b.num

\* String.prototype.includes
Includes(s, t) ==
    \E i \in 1..(Len(s) - Len(t) + 1) : SubSeq(s, i, i + Len(t) - 1) = t

Digits == "0123456789abcdef"

\* the value of the digit c, -1 when c is no digit
DigitValue(c) ==
    LET at == {i \in 1..Len(Digits) : SubSeq(Digits, i, i) = c}
    IN  IF at = {} THEN -1 ELSE (CHOOSE i \in at : TRUE) - 1

IsDigit(c, radix) == DigitValue(c) >= 0 /\ DigitValue(c) < radix

RECURSIVE DigitsValue(_, _)
\* the number the digit string s writes in the radix
DigitsValue(s, radix) ==
    IF s = "" THEN 0
    ELSE DigitsValue(SubSeq(s, 1, Len(s) - 1), radix) * radix
            + DigitValue(SubSeq(s, Len(s), Len(s)))

AllDigits(s, radix) == \A i \in 1..Len(s) : IsDigit(SubSeq(s, i, i), radix)

HasHexPrefix(s) == Len(s) >= 2 /\ SubSeq(s, 1, 2) \in {"0x", "0X"}

RECURSIVE ToStringRadix(_, _)
\* Number.prototype.toString(radix) of a non-negative integer
ToStringRadix(n, radix) ==
    IF n < radix THEN SubSeq(Digits, n + 1, n + 1)
    ELSE ToStringRadix(n \div radix, radix)
            \o SubSeq(Digits, (n % radix) + 1, (n % radix) + 1)

\* String(v) as parseInt applies it to its first argument
ToText(v) == IF IsStr(v) THEN v.str ELSE ToStringRadix(v.num, 10)

\* parseInt(v, radix); radix 0 is the one-argument call.  The longest prefix
\* of digits is read and the rest ignored; no digit at all gives NaN.
ParseInt(v, radix) ==
    LET s    == ToText(v)
        hex  == radix \in {0, 16} /\ HasHexPrefix(s)
        r    == IF hex THEN 16 ELSE IF radix = 0 THEN 10 ELSE radix
        body == IF hex THEN SubSeq(s, 3, Len(s)) ELSE s
        k    == CHOOSE n \in 0..Len(body) :
                    /\ AllDigits(SubSeq(body, 1, n), r)
                    /\ (n = Len(body) \/ ~IsDigit(SubSeq(body, n + 1, n + 1), r))
    IN  IF k = 0 THEN NaN ELSE Num(DigitsValue(SubSeq(body, 1, k), r))

TypeError == [throw |-> "TypeError"]

SyntaxError == [throw |-> "SyntaxError"]

IsThrow(v) == "throw" \in DOMAIN v

\* BigInt(v): the whole text must be a number, else it throws
BigInt(v) ==
    IF IsNum(v) THEN v
    ELSE IF ~IsStr(v) THEN TypeError
    ELSE IF v.str = "" THEN Num(0)
    ELSE IF HasHexPrefix(v.str)
         THEN LET body == SubSeq(v.str, 3, Len(v.str))
              IN  IF body # "" /\ AllDigits(body, 16)
                  THEN Num(DigitsValue(body, 16)) ELSE SyntaxError
    ELSE IF AllDigits(v.str, 10) THEN Num(DigitsValue(v.str, 10))
    ELSE SyntaxError

\* typeof fee === 'number' ? `0x${fee.toString(16)}` : fee
FeeValue(fee) == IF IsNum(fee) THEN Str("0x" \o ToStringRadix(fee.num, 16)) ELSE fee

----------------------------------------------------------------------------
(* What makeRequest's promise settles with *)

\* reject(new Error(message)): 'error', 'timeout', or a body JSON.parse refuses
Rejected(message) == [settled |-> "rejected", message |-> message]

\* resolve({result: parsed.result, error: parsed.error, ...})
Resolved(result, error) == [settled |-> "resolved", result |-> result, error |-> error]

\* the error member of a JSON-RPC response
RpcError(message) == [message |-> message]

IsRejected(r) == r.settled = "rejected"

\* response.error is truthy
HasError(r) == ~IsRejected(r) /\ r.error # Undefined

\* the result member of an eth_feeHistory response, as far as the probe reads it
FeeHistoryResult(baseFeePerGas, reward) ==
    [baseFeePerGas |-> baseFeePerGas, reward |-> reward]

Bool(b) == [bool |-> b]

----------------------------------------------------------------------------
(* Bounds of the endpoint's replies *)

\* eth_blockNumber answers block 100 .. 100 + MaxBlockAdvance
MaxBlockAdvance == 1

\* longest baseFeePerGas array the endpoint returns
MaxBaseFees == 1

\* most entries of the latest block's reward array
MaxRewards == 3

\* sequences over S of length lo..hi
SeqsOf(S, lo, hi) == UNION {[1..n -> S] : n \in lo..hi}

Rejections ==
    { Rejected("Request failed: connect ECONNREFUSED"),
      Rejected("Request timeout"),
      Rejected("Failed to parse response: Unexpected token < in JSON") }

\* a body with neither result nor error, and one with an empty result
NoResults == { Resolved(Undefined, Undefined), Resolved(Str(""), Undefined) }

Failures == Rejections \cup NoResults \cup { Resolved(Undefined, RpcError("method not found")) }

Answers(values) == { Resolved(v, Undefined) : v \in values }

BlockNumbers ==
    { Str("0x" \o ToStringRadix(100 + d, 16)) : d \in 0..MaxBlockAdvance }

FeeErrorMessages ==
    { "invalid argument 0: json: cannot unmarshal string into Go value",
      "invalid request: eth_feeHistory is not supported",
      "the method eth_feeHistory is not supported",
      "method not found",
      "Invalid params" }

GoodFees == { Str("0x3b9aca00"), Num(1000000000) }

BadFee == Str("1 gwei")

BaseFeeShapes ==
    {Undefined} \cup { Arr(s) : s \in SeqsOf(GoodFees \cup {BadFee}, 0, MaxBaseFees) }

RewardShapes ==
    {Undefined, Arr(<<>>)}
        \cup { Arr(<<Arr(s)>>) : s \in SeqsOf(GoodFees, 0, MaxRewards) }
        \cup { Arr(<<Arr(<<Str("0x1"), BadFee, Str("0x3")>>)>>) }

FullFeeHistory ==
    FeeHistoryResult(Arr(<<Str("0x3b9aca00")>>),
                     Arr(<<Arr(<<Str("0x1"), Str("0x2"), Str("0x3")>>)>>))

FeeErrors == { Resolved(Undefined, RpcError(m)) : m \in FeeErrorMessages }

\* The endpoints the tester is run against.  "any" may fail every request;
\* "fee" is healthy except that eth_feeHistory answers with any shape;
\* "legacy" is healthy and has no eth_feeHistory.
Endpoints == {"any", "fee", "legacy"}

Replies(e, method) ==
    CASE method = "eth_chainId" ->
            IF e = "any" THEN Failures \cup Answers({Str("0x1"), Str("0x89"), Str("0xzz")})
            ELSE Answers({Str("0x1")})
      [] method = "eth_blockNumber" ->
            IF e = "any" THEN Failures \cup Answers(BlockNumbers \cup {Str("0xzz")})
            ELSE Answers({Str("0x64")})
      [] method = "eth_getBalance" ->
            IF e = "any" THEN Failures \cup Answers({Str("0x2a"), Str("1.5 ETH")})
            ELSE Answers({Str("0x2a")})
      [] method = "eth_feeHistory" ->
            IF e = "any"
            THEN Rejections \cup NoResults \cup FeeErrors
                    \cup Answers({FullFeeHistory, FeeHistoryResult(Undefined, Undefined)})
            ELSE IF e = "fee"
            THEN Rejections \cup NoResults \cup FeeErrors
                    \cup Answers({FeeHistoryResult(b, w) : b \in BaseFeeShapes, w \in RewardShapes})
            ELSE { Resolved(Undefined, RpcError("method not found")) }
      [] method = "eth_gasPrice" ->
            IF e = "any" THEN Failures \cup Answers({Str("0x3b9aca00"), Str("fast")})
            ELSE Answers({Str("0x3b9aca00")})

----------------------------------------------------------------------------
(* main() and the RPCTester *)

Alpha == "abcdefghijklmnopqrstuvwxyz"

IsAlpha(c) == \E i \in 1..Len(Alpha) : SubSeq(Alpha, i, i) = c

\* new URL(s) does not throw: s starts with a scheme, letters up to a colon
UrlParses(s) ==
    \E k \in 1..(Len(s) - 1) :
        /\ SubSeq(s, k + 1, k + 1) = ":"
        /\ \A i \in 1..k : IsAlpha(SubSeq(s, i, i))

\* the tests array of runAllTests
TestOrder ==
    <<"eth_chainId", "eth_blockNumber", "eth_getBalance", "eth_feeHistory", "eth_gasPrice">>

\* const numCalls = 5
numCalls == 5

\* testGetBalance's testAddresses
testAddresses == <<"0x0000000000000000000000000000000000000000", TEST_ADDRESS>>

NoResultsYet == [chainId |-> Undefined, blockNumber |-> Undefined, eip1559 |-> Undefined]

Init ==
    /\ argv \in { <<>>, <<"not a url">>, <<"http://localhost:8545">>,
                  <<"http://localhost:8545", "1">> }
    /\ TEST_ADDRESS \in {"", "0x8ba1f109551bd432803012645ac136ddd64dba72"}
    /\ endpoint \in Endpoints
    /\ pc = "main"
    /\ exitCode = -1
    /\ expectedChainId = Undefined
    /\ requestId = 0
    /\ results = NoResultsYet
    /\ testResult = [passed |-> 0, failed |-> 0, tests |-> <<>>]
    /\ idx = 0
    /\ tpc = "idle"
    /\ ret = "none"
    /\ response = Undefined
    /\ samples = <<>>
    /\ addrIdx = 0
    /\ parameterFormat = "null"
    /\ console = {}
    /\ wire = <<>>
    /\ inflight = {}
    /\ received = <<>>
    /\ invoked = <<>>
    /\ outcomes = <<>>
    /\ now = 0
    /\ mpc = "idle"
    /\ startTime = 0
    /\ responseTime = -1
    /\ responseData = 0
    /\ endTime = -1

\* One call of makeRequest event by event, with the clock: Spec takes a call
\* as one step and leaves these alone, TimingSpec steps through them.
requestVars == <<now, mpc, startTime, responseTime, responseData, endTime>>

testerVars == <<expectedChainId, requestId, results, wire, inflight>>

runnerVars == <<testResult, idx, invoked, outcomes>>

probeVars == <<tpc, ret, response, samples, addrIdx, parameterFormat, console, received>>

envVars == <<argv, TEST_ADDRESS, endpoint>>

\* process.exit(code)
Exit(code) ==
    /\ pc' = "exit"
    /\ exitCode' = code

\* args.length === 0: usage, process.exit(1)
MainUsage ==
    /\ pc = "main"
    /\ Len(argv) = 0
    /\ Exit(1)
    /\ UNCHANGED <<requestVars, envVars, testerVars, runnerVars, probeVars>>

\* new URL(rpcUrl) throws: process.exit(1)
MainInvalidUrl ==
    /\ pc = "main"
    /\ Len(argv) > 0
    /\ ~UrlParses(argv[1])
    /\ Exit(1)
    /\ UNCHANGED <<requestVars, envVars, testerVars, runnerVars, probeVars>>

\* new RPCTester(rpcUrl, expectedChainId), then runAllTests() up to its loop
MainRun ==
    /\ pc = "main"
    /\ Len(argv) > 0
    /\ UrlParses(argv[1])
    /\ expectedChainId' =
            IF Len(argv) >= 2 /\ argv[2] # "" THEN ParseInt(Str(argv[2]), 0) ELSE Undefined
    /\ pc' = "runAllTests"
    /\ idx' = 1
    /\ UNCHANGED <<requestVars, envVars, exitCode, requestId, results, wire, inflight,
                   testResult, invoked, outcomes, probeVars>>

\* the request the running probe awaits
AwaitedId == wire[Len(wire)].id

\* MakeRequest that does not wait for the promises in `settled`
MakeRequestWithoutAwait(method, params, settled) ==
    /\ requestId' = requestId + 1
    /\ wire' = Append(wire, [method |-> method, params |-> params, id |-> requestId + 1])
    /\ inflight' = inflight \cup {requestId + 1}

\* MakeRequest with id: this.requestId++
MakeRequestPostIncrement(method, params, settled) ==
    /\ requestId' = requestId + 1
    /\ wire' = Append(wire, [method |-> method, params |-> params, id |-> requestId])
    /\ inflight' = (inflight \ settled) \cup {requestId + 1}

\* makeRequest(method, params): id: ++this.requestId, req.write(data); the
\* promises in `settled` have settled by now
MakeRequest(method, params, settled) ==
    /\ requestId' = requestId + 1
    /\ wire' = Append(wire, [method |-> method, params |-> params, id |-> requestId + 1])
    /\ inflight' = (inflight \ settled) \cup {requestId + 1}

\* the awaited promise settled and the continuation makes no request
NoRequest ==
    /\ requestId' = requestId
    /\ wire' = wire
    /\ inflight' = inflight \ {AwaitedId}

\* the parameters of a probe's first request
FirstParams(name) ==
    CASE name = "eth_getBalance" -> <<Str(testAddresses[1]), Str("latest")>>
      [] name = "eth_feeHistory" ->
            <<Str("0xa"), Str("latest"), Arr(<<Num(25), Num(50), Num(75)>>)>>
      [] OTHER -> <<>>

\* the probe function returns (resolves) or, for "throw", rejects
Return(v) ==
    /\ tpc' = "returned"
    /\ ret' = v

\* await test.fn(): the probe runs up to its first await.  An exception that
\* leaves the probe function (its first console.log is outside its try block)
\* rejects the promise runAllTests awaits.
RunnerInvoke ==
    /\ pc = "runAllTests"
    /\ idx \in 1..Len(TestOrder)
    /\ tpc = "idle"
    /\ invoked' = Append(invoked, TestOrder[idx])
    /\ \E throws \in BOOLEAN :
          IF throws
          THEN /\ Return("throw")
               /\ UNCHANGED <<requestId, wire, inflight, addrIdx>>
          ELSE /\ MakeRequest(TestOrder[idx], FirstParams(TestOrder[idx]), {})
               /\ tpc' = "await"
               /\ ret' = ret
               /\ addrIdx' = IF TestOrder[idx] = "eth_getBalance" THEN 1 ELSE addrIdx
    /\ UNCHANGED <<requestVars, envVars, pc, exitCode, expectedChainId, results, testResult, idx,
                   outcomes, response, samples, parameterFormat, console, received>>

\* what runAllTests stores in results.tests for a probe that ended with v
Passed(v) == v = "true"

\* Record that leaves a probe that threw out of the failed counter
RecordNotCountingThrow(r, name, v) ==
    [passed |-> IF Passed(v) THEN r.passed + 1 ELSE r.passed,
     failed |-> IF v = "false" THEN r.failed + 1 ELSE r.failed,
     tests  |-> (name :> Passed(v)) @@ r.tests]

\* results.tests[test.name] = passed, and the counters; a rejection is caught
\* and counted as failed
Record(r, name, v) ==
    [passed |-> IF Passed(v) THEN r.passed + 1 ELSE r.passed,
     failed |-> IF Passed(v) THEN r.failed ELSE r.failed + 1,
     tests  |-> (name :> Passed(v)) @@ r.tests]

\* NextTest with the loop given up when a probe threw
NextTestAbortingOnThrow(i, v) == IF v = "throw" THEN Len(TestOrder) + 1 ELSE i + 1

\* the position of the for loop after a probe that ended with v
NextTest(i, v) == i + 1

\* the body of runAllTests' loop after the await
RunnerRecord ==
    /\ pc = "runAllTests"
    /\ tpc = "returned"
    /\ testResult' = Record(testResult, TestOrder[idx], ret)
    /\ outcomes' = Append(outcomes, ret)
    /\ idx' = NextTest(idx, ret)
    /\ tpc' = "idle"
    /\ ret' = "none"
    /\ response' = Undefined
    /\ samples' = <<>>
    /\ addrIdx' = 0
    /\ parameterFormat' = "null"
    /\ console' = {}
    /\ received' = <<>>
    /\ UNCHANGED <<requestVars, envVars, pc, exitCode, testerVars, invoked>>

\* process.exit(results.failed > 0 ? 1 : 0)
ExitStatus(r) == IF r.failed > 0 THEN 1 ELSE 0

\* the lines of the summary after the counters: if (this.results.chainId),
\* if (this.results.blockNumber), if (this.results.eip1559 !== undefined)
Summary(rs) ==
    (IF Falsy(rs.chainId) THEN {} ELSE {"Chain ID"})
        \cup (IF Falsy(rs.blockNumber) THEN {} ELSE {"Current Block"})
        \cup (IF rs.eip1559 = Undefined THEN {}
              ELSE IF rs.eip1559 = Bool(TRUE)
                   THEN {"Gas Model: EIP-1559"}
                   ELSE {"Gas Model: Legacy"})

\* the last line of the summary
Verdict(r) ==
    IF r.passed = Len(TestOrder) THEN "All tests passed"
    ELSE IF r.passed > 0 THEN "Some tests failed"
    ELSE "All tests failed"

\* the loop is over: the summary is printed, runAllTests returns, main exits
MainExit ==
    /\ pc = "runAllTests"
    /\ idx > Len(TestOrder)
    /\ tpc = "idle"
    /\ console' = console \cup Summary(results) \cup {Verdict(testResult)}
    /\ Exit(ExitStatus(testResult))
    /\ UNCHANGED <<requestVars, envVars, testerVars, runnerVars, tpc, ret, response, samples,
                   addrIdx, parameterFormat, received>>

----------------------------------------------------------------------------
(* The probes *)

\* the probe whose continuation runs next
Running(name) ==
    /\ pc = "runAllTests"
    /\ idx \in 1..Len(TestOrder)
    /\ TestOrder[idx] = name

\* makeRequest rejected, or response.error, or !response.result: each throws
\* into the probe's catch, which returns false
ProbeFails(r) == IsRejected(r) \/ r.error # Undefined \/ Falsy(r.result)

\* Catch that asks again after a timeout
CatchRetryingTimeout(r) ==
    IF IsRejected(r) /\ r.message = "Request timeout"
    THEN /\ MakeRequest(TestOrder[idx], FirstParams(TestOrder[idx]), {AwaitedId})
         /\ UNCHANGED <<tpc, ret>>
    ELSE /\ NoRequest
         /\ Return("false")

\* catch (error) of a probe, entered with what the await produced: the failure
\* is printed and the probe returns false without another request
Catch(r) ==
    /\ NoRequest
    /\ Return("false")

\* the awaited promise settles with r
Settle(r) ==
    /\ response' = r
    /\ received' = Append(received, r)

\* this.expectedChainId && chainId !== this.expectedChainId
Mismatch(expected, chainId) == ~Falsy(expected) /\ chainId # expected

\* ChainIdReturn that fails the probe on a mismatch
ChainIdReturnFailingOnMismatch(expected, chainId) ==
    IF Mismatch(expected, chainId) THEN "false" ELSE "true"

\* what testChainId returns once it has parsed the chain id: the warning is
\* followed by `return true`
ChainIdReturn(expected, chainId) == "true"

\* testChainId after its await
ChainIdSettle ==
    /\ Running("eth_chainId")
    /\ tpc = "await"
    /\ \E r \in Replies(endpoint, "eth_chainId") :
          /\ Settle(r)
          /\ IF ProbeFails(r)
             THEN /\ Catch(r)
                  /\ UNCHANGED <<results, console>>
             ELSE LET chainId == ParseInt(r.result, 16)
                  IN  /\ NoRequest
                      /\ results' = [results EXCEPT !.chainId = chainId]
                      /\ console' = console \cup
                            (IF Mismatch(expectedChainId, chainId)
                             THEN {"warning"} ELSE {})
                      /\ Return(ChainIdReturn(expectedChainId, chainId))
    /\ UNCHANGED <<requestVars, envVars, pc, exitCode, expectedChainId, runnerVars,
                   samples, addrIdx, parameterFormat>>

\* blockNumbers.some((block, i) => i > 0 && block > blockNumbers[i - 1])
IsIncrementing(blockNumbers) ==
    \E i \in 1..Len(blockNumbers) :
        i > 1 /\ JsGreater(blockNumbers[i], blockNumbers[i - 1])

\* MoreCalls that stops the loop one call early
MoreCallsOneShort(have) == have < numCalls - 1

\* MoreCalls that lets the loop make a sixth call
MoreCallsOneMore(have) == have < numCalls + 1

\* the loop of testBlockNumber goes on after `have` samples
MoreCalls(have) == have < numCalls

\* testBlockNumber after one of its awaits
BlockNumberSettle ==
    /\ Running("eth_blockNumber")
    /\ tpc = "await"
    /\ \E r \in Replies(endpoint, "eth_blockNumber") :
          /\ Settle(r)
          /\ IF ProbeFails(r)
             THEN /\ Catch(r)
                  /\ UNCHANGED <<results, console, samples>>
             ELSE LET all == Append(samples, ParseInt(r.result, 16))
                  IN  /\ samples' = all
                      /\ IF MoreCalls(Len(all))
                         THEN /\ MakeRequest("eth_blockNumber", <<>>, {AwaitedId})
                              /\ UNCHANGED <<tpc, ret, results, console>>
                         ELSE /\ NoRequest
                              /\ results' = [results EXCEPT !.blockNumber = all[Len(all)]]
                              /\ console' = console \cup
                                    (IF IsIncrementing(all) THEN {"active"} ELSE {})
                              /\ Return("true")
    /\ UNCHANGED <<requestVars, envVars, pc, exitCode, expectedChainId, runnerVars,
                   addrIdx, parameterFormat>>

\* testGetBalance after one of its awaits
GetBalanceSettle ==
    /\ Running("eth_getBalance")
    /\ tpc = "await"
    /\ \E r \in Replies(endpoint, "eth_getBalance") :
          /\ Settle(r)
          /\ IF ProbeFails(r) \/ IsThrow(BigInt(r.result))
             THEN /\ Catch(r)
                  /\ addrIdx' = addrIdx
             ELSE IF addrIdx < Len(testAddresses)
             THEN /\ MakeRequest("eth_getBalance",
                                 <<Str(testAddresses[addrIdx + 1]), Str("latest")>>,
                                 {AwaitedId})
                  /\ addrIdx' = addrIdx + 1
                  /\ UNCHANGED <<tpc, ret>>
             ELSE /\ NoRequest
                  /\ Return("true")
                  /\ addrIdx' = addrIdx
    /\ UNCHANGED <<requestVars, envVars, pc, exitCode, expectedChainId, results, runnerVars,
                   samples, parameterFormat, console>>

\* testGasPrice after its await
GasPriceSettle ==
    /\ Running("eth_gasPrice")
    /\ tpc = "await"
    /\ \E r \in Replies(endpoint, "eth_gasPrice") :
          /\ Settle(r)
          /\ IF ProbeFails(r) \/ IsThrow(BigInt(r.result))
             THEN Catch(r)
             ELSE /\ NoRequest
                  /\ Return("true")
    /\ UNCHANGED <<requestVars, envVars, pc, exitCode, expectedChainId, results, runnerVars,
                   samples, addrIdx, parameterFormat, console>>

----------------------------------------------------------------------------
(* testFeeHistory *)

\* NumberFormatRetry with the 'invalid' pattern left out
NumberFormatRetryWithoutInvalid(hexError) ==
    \/ Includes(hexError, "unmarshal")
    \/ Includes(hexError, "destruct")
    \/ Includes(hexError, "parse")
    \/ Includes(hexError, "type")
    \/ Includes(hexError, "expected")

\* hexError.includes(...) of the six patterns: retry with the number format
NumberFormatRetry(hexError) ==
    \/ Includes(hexError, "unmarshal")
    \/ Includes(hexError, "destruct")
    \/ Includes(hexError, "parse")
    \/ Includes(hexError, "invalid")
    \/ Includes(hexError, "type")
    \/ Includes(hexError, "expected")

\* NotSupported that knows 'not found' only
NotSupportedOnlyNotFound(message) == Includes(message, "not found")

\* NotSupported that knows 'not supported' only
NotSupportedOnlyNotSupported(message) == Includes(message, "not supported")

\* response.error.message.includes('not found') || ...includes('not supported')
NotSupported(message) ==
    Includes(message, "not found") \/ Includes(message, "not supported")

\* a[i - 1] of a JavaScript array: undefined past its end
At(a, i) == IF i \in 1..Len(a) THEN a[i] ELSE Undefined

\* The lines of the priority fee percentiles: each BigInt may throw, and what
\* was printed before stays printed.
Percentiles(latestRewards) ==
    LET reward25 == FeeValue(At(latestRewards, 1))
        reward50 == FeeValue(At(latestRewards, 2))
        reward75 == FeeValue(At(latestRewards, 3))
    IN  IF IsThrow(BigInt(reward25)) THEN [threw |-> TRUE, printed |-> {"percentiles"}]
        ELSE IF IsThrow(BigInt(reward50))
             THEN [threw |-> TRUE, printed |-> {"percentiles", "25th"}]
        ELSE IF IsThrow(BigInt(reward75))
             THEN [threw |-> TRUE, printed |-> {"percentiles", "25th", "50th"}]
        ELSE [threw |-> FALSE, printed |-> {"percentiles", "25th", "50th", "75th"}]

\* testFeeHistory from `if (!response.result)` to its return: what it returns,
\* what it leaves in this.results.eip1559 and what it prints.  A throw lands in
\* the catch, which returns false and leaves this.results as it is.
ParseFeeHistory(result, format, eip1559) ==
    IF Falsy(result) THEN [ret |-> "false", eip1559 |-> eip1559, printed |-> {}]
    ELSE
    LET base      == result.baseFeePerGas
        reward    == result.reward
        hasReward == reward # Undefined /\ Len(reward.arr) > 0
        heading   == {"EIP-1559 Supported", "latest base fee",
                      IF hasReward THEN "reward field: supported"
                                   ELSE "reward field: not supported"}
                        \cup (IF format = "null" THEN {} ELSE {"format: " \o format})
    IN  IF base = Undefined \/ Len(base.arr) = 0
        THEN [ret |-> "true", eip1559 |-> Bool(FALSE), printed |-> {"legacy"}]
        ELSE IF IsThrow(BigInt(FeeValue(base.arr[Len(base.arr)])))
        THEN [ret |-> "false", eip1559 |-> Bool(TRUE), printed |-> {}]
        ELSE IF \E i \in 1..Len(base.arr) : IsThrow(BigInt(FeeValue(base.arr[i])))
        THEN [ret |-> "false", eip1559 |-> Bool(TRUE), printed |-> heading]
        ELSE IF hasReward /\ Len(reward.arr[Len(reward.arr)].arr) > 0
        THEN LET p == Percentiles(reward.arr[Len(reward.arr)].arr)
             IN  [ret      |-> IF p.threw THEN "false" ELSE "true",
                  eip1559  |-> Bool(TRUE),
                  printed  |-> heading \cup {"average base fee"} \cup p.printed]
        ELSE [ret |-> "true", eip1559 |-> Bool(TRUE),
              printed |-> heading \cup {"average base fee"}]

\* testFeeHistory from `if (response.error)` after the last request: the
\* unsupported-feature check, or the parsing of the result
FinishFeeHistory(r, format) ==
    IF HasError(r)
    THEN IF NotSupported(r.error.message)
         THEN /\ results' = [results EXCEPT !.eip1559 = Bool(FALSE)]
              /\ console' = console \cup {"not supported"}
              /\ Return("true")
         ELSE /\ Return("false")
              /\ UNCHANGED <<results, console>>
    ELSE LET p == ParseFeeHistory(r.result, format, results.eip1559)
         IN  /\ results' = [results EXCEPT !.eip1559 = p.eip1559]
             /\ console' = console \cup p.printed
             /\ Return(p.ret)

\* FormatRecorded that records 'hex' whichever request was answered
FormatRecordedAlwaysHex(r, format) == IF HasError(r) THEN "null" ELSE "hex"

\* parameterFormat after the reply r to the request made in `format`:
\* `if (!response.error) parameterFormat = 'number'` after the second
\* request, `else parameterFormat = 'hex'` after the first
FormatRecorded(r, format) == IF HasError(r) THEN "null" ELSE format

\* testFeeHistory after the await of the hex-format request ('0xa')
FeeHistorySettle ==
    /\ Running("eth_feeHistory")
    /\ tpc = "await"
    /\ \E r \in Replies(endpoint, "eth_feeHistory") :
          /\ Settle(r)
          /\ IF IsRejected(r)
             THEN /\ Catch(r)
                  /\ UNCHANGED <<results, console, parameterFormat>>
             ELSE IF HasError(r) /\ NumberFormatRetry(r.error.message)
             THEN /\ MakeRequest("eth_feeHistory",
                                 <<Num(10), Str("latest"), Arr(<<Num(25), Num(50), Num(75)>>)>>,
                                 {AwaitedId})
                  /\ console' = console \cup {"trying number format"}
                  /\ tpc' = "await number format"
                  /\ UNCHANGED <<ret, results, parameterFormat>>
             ELSE /\ NoRequest
                  /\ parameterFormat' = FormatRecorded(r, "hex")
                  /\ FinishFeeHistory(r, parameterFormat')
    /\ UNCHANGED <<requestVars, envVars, pc, exitCode, expectedChainId, runnerVars, samples, addrIdx>>

\* testFeeHistory after the await of the number-format request (10)
FeeHistoryRetrySettle ==
    /\ Running("eth_feeHistory")
    /\ tpc = "await number format"
    /\ \E r \in Replies(endpoint, "eth_feeHistory") :
          /\ Settle(r)
          /\ IF IsRejected(r)
             THEN /\ Catch(r)
                  /\ UNCHANGED <<results, console, parameterFormat>>
             ELSE /\ NoRequest
                  /\ parameterFormat' = FormatRecorded(r, "number")
                  /\ FinishFeeHistory(r, parameterFormat')
    /\ UNCHANGED <<requestVars, envVars, pc, exitCode, expectedChainId, runnerVars, samples, addrIdx>>

----------------------------------------------------------------------------
(* makeRequest when the connection closes inside the response *)

\* The response callback listens for 'data' and 'end' on res, and the request
\* for 'error' and 'timeout'.  When the connection is closed after the
\* response has begun and before its body is complete, res gets 'aborted' and
\* 'close', and its 'error' is emitted to listeners only: 'end' is not
\* emitted and the request gets no 'error', so the promise is neither
\* resolved nor rejected.  The socket and its timer are gone, nothing is left
\* for the event loop and the process ends with status 0, main still waiting
\* in its await.  Only the endpoint that fails requests does this.
ResponseAborted ==
    /\ pc = "runAllTests"
    /\ tpc \in {"await", "await number format"}
    /\ endpoint = "any"
    /\ pc' = "exit"
    /\ exitCode' = 0
    /\ UNCHANGED <<requestVars, envVars, testerVars, runnerVars, probeVars>>

----------------------------------------------------------------------------

Next ==
    \/ MainUsage
    \/ MainInvalidUrl
    \/ MainRun
    \/ RunnerInvoke
    \/ ChainIdSettle
    \/ BlockNumberSettle
    \/ GetBalanceSettle
    \/ FeeHistorySettle
    \/ FeeHistoryRetrySettle
    \/ GasPriceSettle
    \/ ResponseAborted
    \/ RunnerRecord
    \/ MainExit

Spec == Init /\ [][Next]_vars

----------------------------------------------------------------------------
(* makeRequest event by event: the eth_chainId call of a session *)

\* how far the clock is followed
MaxClock == 5

\* how many 'data' events one response is followed through
MaxChunks == 2

\* resolve({result, error, responseTime, ...}) as the response callback's
\* 'end' listener builds it
Timed(r, t) ==
    [settled |-> r.settled, result |-> r.result, error |-> r.error, responseTime |-> t]

\* main has built the RPCTester and runAllTests is at the top of its loop
TimingInit ==
    /\ argv = <<"http://localhost:8545">>
    /\ TEST_ADDRESS = ""
    /\ endpoint = "any"
    /\ pc = "runAllTests"
    /\ exitCode = -1
    /\ expectedChainId = Undefined
    /\ requestId = 0
    /\ results = NoResultsYet
    /\ testResult = [passed |-> 0, failed |-> 0, tests |-> <<>>]
    /\ idx = 1
    /\ tpc = "idle"
    /\ ret = "none"
    /\ response = Undefined
    /\ samples = <<>>
    /\ addrIdx = 0
    /\ parameterFormat = "null"
    /\ console = {}
    /\ wire = <<>>
    /\ inflight = {}
    /\ received = <<>>
    /\ invoked = <<>>
    /\ outcomes = <<>>
    /\ now = 0
    /\ mpc = "idle"
    /\ startTime = 0
    /\ responseTime = -1
    /\ responseData = 0
    /\ endTime = -1

\* what a step of makeRequest leaves alone besides the request itself
callerVars == <<envVars, pc, exitCode, expectedChainId, results, runnerVars,
                ret, samples, addrIdx, parameterFormat, console>>

\* a millisecond passes while the call has not settled
Tick ==
    /\ pc = "runAllTests"
    /\ mpc # "settled"
    /\ now < MaxClock
    /\ now' = now + 1
    /\ UNCHANGED <<callerVars, invoked, tpc, response, received, requestId, wire, inflight,
                   mpc, startTime, responseTime, responseData, endTime>>

\* testChainId calls makeRequest: const startTime = Date.now(), the request
\* is created, the listeners are set, req.write(data), req.end()
RequestWrite ==
    /\ pc = "runAllTests"
    /\ idx = 1
    /\ tpc = "idle"
    /\ mpc = "idle"
    /\ invoked' = Append(invoked, TestOrder[idx])
    /\ MakeRequest(TestOrder[idx], FirstParams(TestOrder[idx]), {})
    /\ tpc' = "await"
    /\ startTime' = now
    /\ mpc' = "sent"
    /\ UNCHANGED <<envVars, pc, exitCode, expectedChainId, results, testResult, idx,
                   outcomes, ret, samples, addrIdx, parameterFormat, console,
                   response, received, now, responseTime, responseData, endTime>>

\* the response callback, called when the response headers have arrived:
\* const responseTime = Date.now() - startTime
ResponseCallback(t) == t - startTime

\* the callback of client.request: responseData = '', responseTime, and the
\* 'data' and 'end' listeners
OnResponse ==
    /\ pc = "runAllTests"
    /\ mpc = "sent"
    /\ responseTime' = ResponseCallback(now)
    /\ responseData' = 0
    /\ mpc' = "response"
    /\ UNCHANGED <<callerVars, invoked, tpc, response, received, requestId, wire, inflight,
                   now, startTime, endTime>>

\* res.on('data'): responseData += chunk.toString()
OnData ==
    /\ pc = "runAllTests"
    /\ mpc = "response"
    /\ responseData < MaxChunks
    /\ responseData' = responseData + 1
    /\ UNCHANGED <<callerVars, invoked, tpc, response, received, requestId, wire, inflight,
                   now, mpc, startTime, responseTime, endTime>>

\* the promise of makeRequest settles with r
SettleRequest(r) ==
    /\ response' = r
    /\ received' = Append(received, r)
    /\ inflight' = inflight \ {AwaitedId}
    /\ mpc' = "settled"
    /\ UNCHANGED <<callerVars, invoked, tpc, requestId, wire,
                   now, startTime, responseTime, responseData>>

\* res.on('end'): JSON.parse(responseData), then resolve with the
\* responseTime of the response callback, or reject; an empty body does not
\* parse
OnEnd ==
    /\ pc = "runAllTests"
    /\ mpc = "response"
    /\ endTime' = now
    /\ \E parses \in BOOLEAN :
          /\ parses => responseData > 0
          /\ SettleRequest(IF parses
                           THEN Timed(Resolved(Str("0x1"), Undefined), responseTime)
                           ELSE Rejected("Failed to parse response: Unexpected token < in JSON"))

\* req.on('error'): reject
OnError ==
    /\ pc = "runAllTests"
    /\ mpc \in {"sent", "response"}
    /\ SettleRequest(Rejected("Request failed: connect ECONNREFUSED"))
    /\ UNCHANGED endTime

\* req.on('timeout'): req.destroy(), reject
OnTimeout ==
    /\ pc = "runAllTests"
    /\ mpc \in {"sent", "response"}
    /\ SettleRequest(Rejected("Request timeout"))
    /\ UNCHANGED endTime

\* the connection closes inside the response
OnAborted ==
    /\ mpc = "response"
    /\ ResponseAborted

TimingNext ==
    \/ Tick
    \/ RequestWrite
    \/ OnResponse
    \/ OnData
    \/ OnEnd
    \/ OnError
    \/ OnTimeout
    \/ OnAborted

TimingSpec == TimingInit /\ [][TimingNext]_vars

----------------------------------------------------------------------------
(* Vocabulary of the properties *)

IsFeeHistory(q) == q.method = "eth_feeHistory"

IsBlockNumber(q) == q.method = "eth_blockNumber"

IsGetBalance(q) == q.method = "eth_getBalance"

FeeRequests == SelectSeq(wire, IsFeeHistory)

BlockRequests == SelectSeq(wire, IsBlockNumber)

BalanceRequests == SelectSeq(wire, IsGetBalance)

\* the running probe has made a request and has not been recorded yet
InProbe(name) == Running(name) /\ tpc # "idle" /\ ret # "throw"

\* the running probe has returned true or false
Ended(name) == Running(name) /\ tpc = "returned" /\ ret # "throw"

LastReceived == received[Len(received)]

\* a JSON-RPC reply without error and with a non-empty result
GoodReply(r) ==
    /\ r.settled = "resolved"
    /\ r.error = Undefined
    /\ r.result \notin {Undefined, Str("")}

\* a JSON-RPC error reply whose message contains one of the patterns
ErrorWith(r, patterns) ==
    /\ r.settled = "resolved"
    /\ r.error # Undefined
    /\ \E p \in patterns : Includes(r.error.message, p)

FallbackPatterns == {"unmarshal", "destruct", "parse", "invalid", "type", "expected"}

UnsupportedPatterns == {"not found", "not supported"}

\* a 0x-prefixed hex string or a native number
WellFormed(v) ==
    \/ IsNum(v)
    \/ IsStr(v) /\ Len(v.str) > 2 /\ SubSeq(v.str, 1, 2) = "0x"
                /\ AllDigits(SubSeq(v.str, 3, Len(v.str)), 16)

AllWellFormed(a) == \A i \in 1..Len(a) : WellFormed(a[i])

\* what result parsing prints
ParsingOutput ==
    {"EIP-1559 Supported", "legacy", "latest base fee", "average base fee",
     "reward field: supported", "reward field: not supported",
     "format: hex", "format: number", "percentiles", "25th", "50th", "75th"}

\* main accepted the URL and entered runAllTests
ProbingStarted == Len(argv) > 0 /\ UrlParses(argv[1]) /\ pc # "main"

----------------------------------------------------------------------------
(* C1 *)

\* C1: runAllTests calls the five probes once each in the fixed order
\* chain-identity, block-activity, balance, fee-history, gas-price, whatever
\* the earlier probes returned or threw: what has been called is always a
\* prefix of that order, a probe is called only when the one before it has
\* ended, the loop is left only after all five were called, a session that
\* started probing and had every request answered exits only after the loop,
\* and a probe that threw is recorded as failed (a probe is recorded as passed
\* exactly when it returned true).
ProbesRunOnceInOrder ==
    /\ invoked = SubSeq(TestOrder, 1, Len(invoked))
    /\ Len(outcomes) <= Len(invoked)
    /\ Len(invoked) <= Len(outcomes) + 1
    /\ DOMAIN testResult.tests = {TestOrder[i] : i \in 1..Len(outcomes)}
    /\ \A i \in 1..Len(outcomes) :
          /\ outcomes[i] \in {"true", "false", "throw"}
          /\ testResult.tests[TestOrder[i]] = (outcomes[i] = "true")
    /\ idx > Len(TestOrder) => (invoked = TestOrder /\ Len(outcomes) = 5)
    /\ (ProbingStarted /\ pc = "exit" /\ inflight = {}) => idx > Len(TestOrder)

\* a session in which probes threw, failed and passed, and all five ran
MixedOutcomesSession ==
    /\ pc = "exit"
    /\ outcomes = <<"throw", "false", "true", "false", "true">>
    /\ invoked = TestOrder

----------------------------------------------------------------------------
(* C2 *)

\* C2: a session that started probing exits with 0 exactly when all five
\* probes passed and with 1 exactly when at least one did not; with an
\* unparseable URL no probe is called and no request is made, and the exit
\* code is 1.
ExitCodeReflectsOutcomes ==
    /\ (Len(argv) > 0 /\ ~UrlParses(argv[1])) =>
            (invoked = <<>> /\ wire = <<>> /\ (pc = "exit" => exitCode = 1))
    /\ (ProbingStarted /\ pc = "exit") =>
            /\ exitCode = 0 <=>
                    /\ Len(outcomes) = 5
                    /\ \A i \in 1..Len(outcomes) : outcomes[i] = "true"
            /\ exitCode = 1 <=> (\E i \in 1..Len(outcomes) : outcomes[i] # "true")

----------------------------------------------------------------------------
(* C3 *)

\* C3: in the fee-history probe the request with the block count as the
\* number 10 is made exactly when the reply to the request with the block
\* count "0xa" is a JSON-RPC error whose message contains "unmarshal",
\* "destruct", "parse", "invalid", "type" or "expected" (as written, in lower
\* case); it is made at most once, after that reply, and the first request
\* always carries "0xa".
NumberFormatOnlyAfterMismatchError ==
    /\ Len(FeeRequests) <= 2
    /\ Len(FeeRequests) >= 1 => FeeRequests[1].params[1] = Str("0xa")
    /\ Len(FeeRequests) = 2 => FeeRequests[2].params[1] = Num(10)
    /\ InProbe("eth_feeHistory") =>
            /\ Len(FeeRequests) = 2 <=>
                    (Len(received) >= 1 /\ ErrorWith(received[1], FallbackPatterns))
            /\ Len(FeeRequests) = 1 + (IF Len(received) >= 1 /\ tpc # "returned" THEN 1 ELSE 0)
                                    + (IF Len(received) = 2 THEN 1 ELSE 0)

\* the number-format request was made and answered
NumberFormatTried ==
    /\ Ended("eth_feeHistory")
    /\ Len(FeeRequests) = 2
    /\ Len(received) = 2
    /\ received[1].error.message = "invalid argument 0: json: cannot unmarshal string into Go value"

----------------------------------------------------------------------------
(* C4 *)

\* C4 as claimed: whenever the reply to the hex-format request is an error
\* whose message contains "not supported", no number-format request is made,
\* the probe passes and eip1559 is false; likewise for such a reply to the
\* number-format request.
NotSupportedAlwaysEndsProbe ==
    (InProbe("eth_feeHistory") /\ Len(received) >= 1
        /\ ErrorWith(LastReceived, {"not supported"})) =>
            /\ Len(FeeRequests) = Len(received)
            /\ tpc = "returned"
            /\ ret = "true"
            /\ results.eip1559 = Bool(FALSE)

\* C4 amended: the same, for a reply to the hex-format request whose message
\* contains "not supported" and none of the six number-format patterns, and
\* for every reply to the number-format request that contains "not supported".
NotSupportedEndsProbeUnlessRetried ==
    (InProbe("eth_feeHistory") /\ Len(received) >= 1
        /\ ErrorWith(LastReceived, {"not supported"})
        /\ (Len(received) = 2 \/ ~ErrorWith(LastReceived, FallbackPatterns))) =>
            /\ Len(FeeRequests) = Len(received)
            /\ tpc = "returned"
            /\ ret = "true"
            /\ results.eip1559 = Bool(FALSE)

\* the hex-format request was answered "not supported" and the probe passed
\* without a second request
NotSupportedAtFirstRequest ==
    /\ Ended("eth_feeHistory")
    /\ Len(received) = 1
    /\ ErrorWith(received[1], {"not supported"})
    /\ Len(FeeRequests) = 1
    /\ ret = "true"

----------------------------------------------------------------------------
(* C5 *)

\* C5: when the fee-history probe ends on a JSON-RPC error (the reply to its
\* last request), it passes exactly when that message contains "not found" or
\* "not supported"; then eip1559 is false and nothing of the result parsing
\* was printed; otherwise it fails.  Against an endpoint that answers
\* eth_feeHistory with "method not found", a session in which the probe made
\* its request records it as passed with eip1559 false, and exits with 0 when
\* the other four probes passed.
FinalErrorDecidesFeeProbe ==
    /\ (Ended("eth_feeHistory") /\ Len(received) >= 1 /\ HasError(LastReceived)) =>
            /\ ret = "true" <=> ErrorWith(LastReceived, UnsupportedPatterns)
            /\ ret = "true" => (results.eip1559 = Bool(FALSE) /\ console \cap ParsingOutput = {})
            /\ ret # "true" => ret = "false"
    /\ (endpoint = "legacy" /\ pc = "exit" /\ Len(FeeRequests) >= 1) =>
            /\ outcomes[4] = "true"
            /\ results.eip1559 = Bool(FALSE)
            /\ (\A i \in {1, 2, 3, 5} : outcomes[i] = "true") => exitCode = 0

\* the endpoint without eth_feeHistory: the session exits with 0
LegacyEndpointExitsClean ==
    /\ endpoint = "legacy"
    /\ pc = "exit"
    /\ exitCode = 0
    /\ Len(FeeRequests) = 1
    /\ results.eip1559 = Bool(FALSE)

----------------------------------------------------------------------------
(* C6, C7 *)

\* the fee-history probe ended on a reply without error and with a result
EndedOnFeeHistoryResult ==
    /\ Ended("eth_feeHistory")
    /\ Len(received) >= 1
    /\ LastReceived.settled = "resolved"
    /\ LastReceived.error = Undefined
    /\ LastReceived.result \notin {Undefined, Str("")}

HasBaseFees(result) ==
    result.baseFeePerGas # Undefined /\ Len(result.baseFeePerGas.arr) > 0

\* the entry of the reward field for the most recent block, <<>> without one
LatestRewards(result) ==
    IF result.reward = Undefined \/ Len(result.reward.arr) = 0 THEN <<>>
    ELSE result.reward.arr[Len(result.reward.arr)].arr

\* every fee of the result is a hex string or a number
FeesWellFormed(result) ==
    /\ result.baseFeePerGas # Undefined => AllWellFormed(result.baseFeePerGas.arr)
    /\ AllWellFormed(LatestRewards(result))

\* C6, on results whose fees are all well-formed: when eth_feeHistory
\* succeeds with a result the probe passes, and eip1559 ends true exactly
\* when baseFeePerGas is present and non-empty, false otherwise.
ResultAlwaysPassesFeeProbe ==
    (EndedOnFeeHistoryResult /\ FeesWellFormed(LastReceived.result)) =>
        /\ ret = "true"
        /\ results.eip1559 = Bool(HasBaseFees(LastReceived.result))

\* C7: with a well-formed, non-empty baseFeePerGas the probe passes with
\* eip1559 true whatever the reward field is (absent, empty, or a latest entry
\* of 0, 1, 2, 3 or more well-formed values), and the three percentiles are
\* printed exactly when that entry has at least 3 values.
RewardShapeNeverFailsFeeProbe ==
    (EndedOnFeeHistoryResult /\ FeesWellFormed(LastReceived.result)
        /\ HasBaseFees(LastReceived.result)) =>
            /\ ret = "true"
            /\ results.eip1559 = Bool(TRUE)
            /\ {"25th", "50th", "75th"} \subseteq console
                    <=> Len(LatestRewards(LastReceived.result)) >= 3

----------------------------------------------------------------------------
(* C8 *)

\* C8: the block-activity probe passes exactly when five eth_blockNumber
\* replies in a row have no error and a non-empty result.  Its requests are
\* made one at a time, each after the reply to the one before, never more
\* than five, exactly five when it passes; a reply that is an error, a
\* failure or without result ends the probe as failed, however many good
\* replies came before.
BlockProbeNeedsFiveGoodReplies ==
    InProbe("eth_blockNumber") =>
        /\ Len(BlockRequests) <= 5
        /\ Len(BlockRequests) = Len(received) + (IF tpc = "returned" THEN 0 ELSE 1)
        /\ \A i \in 1..(Len(received) - 1) : GoodReply(received[i])
        /\ tpc = "returned" =>
                /\ ret = "true" <=>
                        (Len(received) = 5 /\ \A i \in 1..5 : GoodReply(received[i]))
                /\ ret # "true" => ret = "false"
        /\ (\E i \in 1..Len(received) : ~GoodReply(received[i])) =>
                (tpc = "returned" /\ ret = "false")

\* five good replies: the probe passed after exactly five requests
BlockProbePassed ==
    /\ Ended("eth_blockNumber")
    /\ ret = "true"
    /\ Len(BlockRequests) = 5
    /\ Len(received) = 5

----------------------------------------------------------------------------
(* C9 *)

\* C9: for the five block numbers the probe sampled, the liveness it reports
\* (a sample greater than the one just before it) is the liveness specified
\* (a sample greater than some earlier one).
LivenessIsAnyLaterIncrease ==
    (Ended("eth_blockNumber") /\ ret = "true") =>
        ("active" \in console
            <=> \E i, j \in 1..Len(samples) : i < j /\ JsGreater(samples[j], samples[i]))

----------------------------------------------------------------------------
(* C10 *)

\* C10: the balance probe asks for the zero address first and asks a second
\* time only when TEST_ADDRESS is configured; without one it makes exactly
\* one request and passes exactly when that reply is good.  With one, the
\* second request follows a good first reply, and the probe fails on the
\* first reply that is not good.
SecondBalanceOnlyWhenConfigured ==
    /\ Len(BalanceRequests) >= 1 =>
            BalanceRequests[1].params[1] = Str("0x0000000000000000000000000000000000000000")
    /\ TEST_ADDRESS = "" => Len(BalanceRequests) <= 1
    /\ Len(BalanceRequests) <= 2
    /\ InProbe("eth_getBalance") =>
            /\ Len(BalanceRequests) = 2 => (Len(received) >= 1 /\ GoodReply(received[1]))
            /\ (TEST_ADDRESS = "" /\ tpc = "returned") =>
                    (ret = "true" <=> GoodReply(received[1]))
            /\ (\E i \in 1..Len(received) : ~GoodReply(received[i])) =>
                    (tpc = "returned" /\ ret = "false")

----------------------------------------------------------------------------
(* C11 *)

\* C11: the chain-identity probe returns true exactly when the reply to
\* eth_chainId carries no error and a non-empty result, whether the expected
\* chain id is absent, equal to the observed one or different from it; the
\* warning is printed only by a probe that passes, and only when an expected
\* chain id was given and differs from the observed one.
ChainOutcomeIgnoresExpectedId ==
    Ended("eth_chainId") =>
        /\ Len(received) = 1
        /\ ret = "true" <=> GoodReply(LastReceived)
        /\ "warning" \in console =>
                /\ ret = "true"
                /\ expectedChainId # Undefined
                /\ results.chainId # expectedChainId

\* chain id 137 was observed where 1 was expected: warned, and passed
MismatchWarnedAndPassed ==
    /\ Ended("eth_chainId")
    /\ expectedChainId = Num(1)
    /\ results.chainId = Num(137)
    /\ "warning" \in console
    /\ ret = "true"

----------------------------------------------------------------------------
(* C12 *)

\* the running probe has had a request rejected by the transport
TransportFailed == \E i \in 1..Len(received) : IsRejected(received[i])

\* the requests of the named method on the wire
RequestsOf(name) == {i \in 1..Len(wire) : wire[i].method = name}

\* C12: a request rejected by the transport (connection error, timeout,
\* unparseable body) is the last request of its probe and the probe returns
\* false: the probe has made as many requests as it has had replies, so the
\* fee-history probe whose "0xa" request was rejected makes no number-format
\* request; from such a state the only step records the failure and moves to
\* the next probe without a request, and every request that reaches the wire
\* is one request of the probe then running.
TransportFailureEndsProbe ==
    /\ [](\A name \in {TestOrder[i] : i \in 1..Len(TestOrder)} :
            (InProbe(name) /\ TransportFailed) =>
                /\ IsRejected(LastReceived)
                /\ \A i \in 1..(Len(received) - 1) : ~IsRejected(received[i])
                /\ tpc = "returned"
                /\ ret = "false"
                /\ inflight = {}
                /\ Cardinality(RequestsOf(name)) = Len(received)
                /\ wire[Len(wire)].method = name)
    /\ [][/\ TransportFailed => (wire' = wire /\ idx' = idx + 1)
          /\ wire' # wire =>
                /\ Len(wire') = Len(wire) + 1
                /\ SubSeq(wire', 1, Len(wire)) = wire
                /\ idx' = idx
                /\ wire'[Len(wire')].method = TestOrder[idx]]_vars

\* the "0xa" request of the fee-history probe timed out and the probe ended
\* with that one request
TimeoutAtFirstFeeRequest ==
    /\ Ended("eth_feeHistory")
    /\ received = <<Rejected("Request timeout")>>
    /\ Len(FeeRequests) = 1
    /\ ret = "false"

----------------------------------------------------------------------------
(* C13 *)

\* C13: at most one request is outstanding: the only promise of makeRequest
\* that can be unsettled is the one of the request made last, inside one
\* probe and from one probe to the next.
AtMostOneOutstanding ==
    /\ Cardinality(inflight) <= 1
    /\ inflight # {} => inflight = {wire[Len(wire)].id}

\* the eleventh request of a session is the only one outstanding
EleventhRequestAlone ==
    /\ Len(wire) = 11
    /\ inflight = {11}
    /\ tpc = "await"

----------------------------------------------------------------------------
(* C14 *)

\* C14: a session that started probing runs to completion: when the process
\* has ended, every request it made was resolved or rejected, the five
\* outcomes are recorded and the exit code is 0 or 1.
SessionRunsToCompletion ==
    (ProbingStarted /\ pc = "exit") =>
        /\ inflight = {}
        /\ Len(outcomes) = Len(TestOrder)
        /\ exitCode \in {0, 1}

----------------------------------------------------------------------------
(* C15 *)

\* the probes whose outcome runAllTests has recorded
Recorded == DOMAIN testResult.tests

\* C15: in runAllTests passed + failed is the number of recorded outcomes,
\* passed the number of those that are true and failed the number of those
\* that are false, and after the loop passed + failed = 5; a step that
\* touches the record adds the outcome of one probe not recorded before and
\* leaves the outcomes recorded earlier as they are.
TalliesMatchOutcomes ==
    /\ [](/\ testResult.passed + testResult.failed = Cardinality(Recorded)
          /\ testResult.passed = Cardinality({n \in Recorded : testResult.tests[n]})
          /\ testResult.failed = Cardinality({n \in Recorded : ~testResult.tests[n]})
          /\ idx > Len(TestOrder) => testResult.passed + testResult.failed = 5)
    /\ [][/\ \A n \in Recorded :
                /\ n \in DOMAIN testResult'.tests
                /\ testResult'.tests[n] = testResult.tests[n]
          /\ testResult' # testResult =>
                /\ TestOrder[idx] \notin Recorded
                /\ DOMAIN testResult'.tests = Recorded \cup {TestOrder[idx]}]_vars

\* the loop is over with three probes passed and two failed, one by a throw
ThreePassedTwoFailed ==
    /\ idx > Len(TestOrder)
    /\ testResult.passed = 3
    /\ testResult.failed = 2
    /\ outcomes = <<"true", "throw", "true", "false", "true">>

----------------------------------------------------------------------------
(* C16 *)

\* the running probe has had a reply whose non-empty result is neither a
\* 0x-prefixed hex string nor a number
MalformedResultReceived ==
    \E i \in 1..Len(received) :
        GoodReply(received[i]) /\ ~WellFormed(received[i].result)

\* C16: in the chain-identity, block-activity, balance and gas-price probes a
\* reply whose non-empty result is neither a 0x-prefixed hex string nor a
\* number ends the probe with false, and no chain id and no latest block is
\* captured from it.
MalformedNumberFailsProbe ==
    \A name \in {"eth_chainId", "eth_blockNumber", "eth_getBalance", "eth_gasPrice"} :
        (InProbe(name) /\ MalformedResultReceived) =>
            /\ tpc = "returned"
            /\ ret = "false"
            /\ name = "eth_chainId" => results.chainId = Undefined
            /\ name = "eth_blockNumber" => results.blockNumber = Undefined

----------------------------------------------------------------------------
(* C17 *)

\* a reply without error whose result is missing or empty
NoResult(r) ==
    /\ r.settled = "resolved"
    /\ r.error = Undefined
    /\ r.result \in {Undefined, Str("")}

\* C17: in each of the five probes a reply that carries neither result nor
\* error, or an empty result, is the last reply of its probe and the probe
\* returns false; in the fee-history probe eip1559 is still unset then.
MissingResultFailsProbe ==
    \A name \in {TestOrder[i] : i \in 1..Len(TestOrder)} :
        \A i \in 1..Len(received) :
            (InProbe(name) /\ NoResult(received[i])) =>
                /\ i = Len(received)
                /\ tpc = "returned"
                /\ ret = "false"
                /\ name = "eth_feeHistory" => results.eip1559 = Undefined

\* the number-format request of the fee-history probe was answered with an
\* empty result
EmptyResultAtNumberFormat ==
    /\ Ended("eth_feeHistory")
    /\ Len(received) = 2
    /\ LastReceived = Resolved(Str(""), Undefined)
    /\ ret = "false"
    /\ results.eip1559 = Undefined

----------------------------------------------------------------------------
(* C18 *)

\* C18: the ids of the requests of one RPCTester count up from 1: the i-th
\* request on the wire carries id i, so no two requests share an id, and
\* requestId is the id of the last request.
RequestIdsCountUp ==
    /\ requestId = Len(wire)
    /\ \A i \in 1..Len(wire) : wire[i].id = i

\* a session that made eleven requests, the last with id 11, and ended
ElevenIdsUsed ==
    /\ pc = "exit"
    /\ Len(wire) = 11
    /\ wire[11].id = 11
    /\ inflight = {}

----------------------------------------------------------------------------
(* C19 *)

\* runAllTests has printed its summary and the process has exited
SummaryPrinted == pc = "exit" /\ idx > Len(TestOrder)

\* C19: in the summary the chain id is reported exactly when the
\* chain-identity probe passed, the latest block exactly when the
\* block-activity probe passed, and the gas model exactly when the
\* fee-history probe passed.
SummaryValuesFollowOutcomes ==
    SummaryPrinted =>
        /\ "Chain ID" \in console <=> testResult.tests["eth_chainId"]
        /\ "Current Block" \in console <=> testResult.tests["eth_blockNumber"]
        /\ (console \cap {"Gas Model: EIP-1559", "Gas Model: Legacy"} # {})
                <=> testResult.tests["eth_feeHistory"]

----------------------------------------------------------------------------
(* C20 *)

\* the fee-history probe ended past its error checks, at `if (!response.result)`
ReachedResultParsing ==
    /\ Ended("eth_feeHistory")
    /\ LastReceived.settled = "resolved"
    /\ LastReceived.error = Undefined

\* C20: when the fee-history probe reaches the parsing of the result,
\* parameterFormat is 'hex' exactly when the "0xa" request was answered
\* without error, and 'number' exactly when the "0xa" request was answered
\* with an error, the request with 10 was made and was answered without
\* error; it is never null there, and the format printed with the fees is
\* the recorded one.
EncodingRecordedAtParsing ==
    ReachedResultParsing =>
        /\ parameterFormat \in {"hex", "number"}
        /\ parameterFormat = "hex" <=>
                (Len(received) = 1 /\ Len(FeeRequests) = 1)
        /\ parameterFormat = "number" <=>
                /\ Len(received) = 2
                /\ Len(FeeRequests) = 2
                /\ received[1].settled = "resolved"
                /\ received[1].error # Undefined
        /\ "EIP-1559 Supported" \in console => ("format: " \o parameterFormat) \in console
        /\ \A f \in {"hex", "number"} :
                ("format: " \o f) \in console => parameterFormat = f

\* the request with 10 was answered with fees after the "0xa" request was
\* refused: the probe passed and printed the number format
NumberFormatRecorded ==
    /\ ReachedResultParsing
    /\ Len(received) = 2
    /\ parameterFormat = "number"
    /\ "format: number" \in console
    /\ ret = "true"

----------------------------------------------------------------------------
(* C21 *)

\* C21: the elapsed time makeRequest resolves with is the time from the
\* writing of the request to the 'end' of the response body: what arrives
\* after the response headers is part of it.
ElapsedCoversBody ==
    (mpc = "settled" /\ response.settled = "resolved") =>
        response.responseTime = endTime - startTime

----------------------------------------------------------------------------
(* C22 *)

\* C22: a session makes at most 11 requests: at most 1 eth_chainId, 5
\* eth_blockNumber, 2 eth_getBalance, 2 eth_feeHistory and 1 eth_gasPrice,
\* and requestId is the number of requests made.  In a session that ran to
\* its summary every probe that returned true or false made at least one
\* request, so a session in which all five probes returned made at least 5,
\* and the id of the last request is the number of requests.
TrafficBounds ==
    /\ requestId = Len(wire)
    /\ Len(wire) <= 11
    /\ Cardinality(RequestsOf("eth_chainId")) <= 1
    /\ Cardinality(RequestsOf("eth_blockNumber")) <= 5
    /\ Cardinality(RequestsOf("eth_getBalance")) <= 2
    /\ Cardinality(RequestsOf("eth_feeHistory")) <= 2
    /\ Cardinality(RequestsOf("eth_gasPrice")) <= 1
    /\ \A q \in 1..Len(wire) : \E i \in 1..Len(TestOrder) : wire[q].method = TestOrder[i]
    /\ SummaryPrinted =>
            /\ \A i \in 1..Len(TestOrder) :
                    outcomes[i] # "throw" => RequestsOf(TestOrder[i]) # {}
            /\ (\A i \in 1..Len(TestOrder) : outcomes[i] # "throw") => Len(wire) >= 5
            /\ wire # <<>> => wire[Len(wire)].id = Len(wire)

\* a session that ran to its summary with one request for each probe
FiveRequestSession ==
    /\ SummaryPrinted
    /\ Len(wire) = 5
    /\ \A i \in 1..Len(TestOrder) :
            outcomes[i] = "false" /\ Cardinality(RequestsOf(TestOrder[i])) = 1

====
